---- MODULE Spec2Model ----
(***************************************************************************)
(* FileOrganizer.py: organize_iterative walks a directory tree with an     *)
(* explicit stack and moves every file into root/<category>, the category  *)
(* being looked up from the file's extension.                              *)
(*                                                                         *)
(* File names are strings, paths are sequences of names relative to the    *)
(* root (<<>> is the root itself).  The file system is a function from     *)
(* physical paths to nodes; symbolic links are resolved as the platform    *)
(* does, giving up after MaxSymlinks links (ELOOP).                        *)
(***************************************************************************)
EXTENDS Integers, Sequences, FiniteSets, TLC

VARIABLES
    fs,               \* the file system: physical path -> node
    fsPrev,           \* the file system when the current run started
    prevClean,        \* the previous run ended with an empty error list
    dry_run,          \* the three policies of organize_iterative
    include_hidden,
    follow_symlinks,
    pc,               \* "start", "loop", "iter", "done", "raised"
    rerun,            \* this is the second run of the organizer on the root
    stack,            \* the work-list of directories (logical paths)
    current,          \* the directory being listed
    pending,          \* entries of current's listing not yet iterated
    summary,          \* category -> count
    errors,           \* sequence of [path, msg]
    processed,        \* "Total files inspected"
    listed,           \* history: every directory popped, in order
    pushed,           \* history: every entry pushed on the stack, in order
    inspected         \* history: every entry that reached the file branch

vars == <<fs, fsPrev, prevClean, dry_run, include_hidden, follow_symlinks, pc,
          rerun, stack, current, pending, summary, errors, processed, listed,
          pushed, inspected>>

policy == <<dry_run, include_hidden, follow_symlinks>>

(***************************************************************************)
(* Bounds of the model.                                                    *)
(***************************************************************************)
MaxItems == 2         \* entries of the universe present in an initial tree
MaxSymlinks == 2      \* links the platform follows in one path resolution

(***************************************************************************)
(* Strings.                                                                *)
(***************************************************************************)
UpperToLower ==
    [A |-> "a", B |-> "b", C |-> "c", D |-> "d", E |-> "e", F |-> "f",
     G |-> "g", H |-> "h", I |-> "i", J |-> "j", K |-> "k", L |-> "l",
     M |-> "m", N |-> "n", O |-> "o", P |-> "p", Q |-> "q", R |-> "r",
     S |-> "s", T |-> "t", U |-> "u", V |-> "v", W |-> "w", X |-> "x",
     Y |-> "y", Z |-> "z"]

RECURSIVE lower(_)
lower(s) ==
    IF s = "" THEN ""
    ELSE LET c == SubSeq(s, 1, 1)
         IN  (IF c \in DOMAIN UpperToLower THEN UpperToLower[c] ELSE c)
                 \o lower(SubSeq(s, 2, Len(s)))

endswith(s, t) ==
    Len(s) >= Len(t) /\ SubSeq(s, Len(s) - Len(t) + 1, Len(s)) = t

startswith(s, t) ==
    Len(s) >= Len(t) /\ SubSeq(s, 1, Len(t)) = t

\* str.rfind("."), 1-based; 0 when there is no dot
rfindDot(s) ==
    LET dots == {i \in 1..Len(s) : SubSeq(s, i, i) = "."}
    IN  IF dots = {} THEN 0 ELSE CHOOSE i \in dots : \A j \in dots : j <= i

\* Path.suffix and Path.stem of a name
suffix(nm) ==
    LET i == rfindDot(nm)
    IN  IF 1 < i /\ i < Len(nm) THEN SubSeq(nm, i, Len(nm)) ELSE ""

stem(nm) ==
    LET i == rfindDot(nm)
    IN  IF 1 < i /\ i < Len(nm) THEN SubSeq(nm, 1, i - 1) ELSE nm

\* f"{i}" for a natural number
RECURSIVE str(_)
str(i) ==
    LET d == SubSeq("0123456789", (i % 10) + 1, (i % 10) + 1)
    IN  IF i < 10 THEN d ELSE str(i \div 10) \o d

(***************************************************************************)
(* The classifier.                                                         *)
(***************************************************************************)
EXT_MAP ==
    (".jpg" :> "Images") @@ (".jpeg" :> "Images") @@ (".png" :> "Images") @@
    (".gif" :> "Images") @@ (".bmp" :> "Images") @@ (".tiff" :> "Images") @@
    (".svg" :> "Images") @@
    (".pdf" :> "Documents") @@ (".doc" :> "Documents") @@
    (".docx" :> "Documents") @@ (".txt" :> "Documents") @@
    (".odt" :> "Documents") @@ (".rtf" :> "Documents") @@
    (".xls" :> "Documents") @@ (".xlsx" :> "Documents") @@
    (".ppt" :> "Documents") @@ (".pptx" :> "Documents") @@
    (".mp3" :> "Audio") @@ (".wav" :> "Audio") @@ (".aac" :> "Audio") @@
    (".flac" :> "Audio") @@ (".ogg" :> "Audio") @@
    (".mp4" :> "Video") @@ (".mkv" :> "Video") @@ (".mov" :> "Video") @@
    (".avi" :> "Video") @@ (".wmv" :> "Video") @@
    (".zip" :> "Archives") @@ (".rar" :> "Archives") @@ (".7z" :> "Archives") @@
    (".tar" :> "Archives") @@ (".gz" :> "Archives") @@
    (".py" :> "Code") @@ (".js" :> "Code") @@ (".java" :> "Code") @@
    (".c" :> "Code") @@ (".cpp" :> "Code") @@ (".html" :> "Code") @@
    (".css" :> "Code") @@ (".sh" :> "Code")

MULTI_EXTENSIONS == {".tar.gz", "tar.bz2"}

get_extension_lower(nm) ==
    LET n == lower(nm)
        hits == {t \in MULTI_EXTENSIONS : endswith(n, t)}
    IN  IF hits # {} THEN CHOOSE t \in hits : TRUE ELSE lower(suffix(nm))

resolve_category(ext) ==
    IF ext \in DOMAIN EXT_MAP THEN EXT_MAP[ext] ELSE "Others"

\* set(EXT_MAP.values()) | {"Others"}
Categories == {EXT_MAP[e] : e \in DOMAIN EXT_MAP} \cup {"Others"}

(***************************************************************************)
(* The file system.                                                        *)
(***************************************************************************)
Dir == [kind |-> "dir", to |-> <<>>, id |-> "", perm |-> TRUE]
\* a directory whose listing raises PermissionError
DirDenied == [kind |-> "dir", to |-> <<>>, id |-> "", perm |-> FALSE]
File(i) == [kind |-> "file", to |-> <<>>, id |-> i, perm |-> TRUE]
\* a file whose move raises
FileLocked(i) == [kind |-> "file", to |-> <<>>, id |-> i, perm |-> FALSE]
Link(t) == [kind |-> "link", to |-> t, id |-> "", perm |-> TRUE]

NoPath == <<"">>

parent(p) == SubSeq(p, 1, Len(p) - 1)
name(p) == p[Len(p)]

\* The physical path of the node that logical path done \o rest names, every
\* symbolic link followed; NoPath when a component is missing, is not a
\* directory, or more than fuel links would have to be followed.
RECURSIVE walk(_, _, _, _)
walk(f, done, rest, fuel) ==
    IF done \notin DOMAIN f THEN NoPath
    ELSE IF rest = <<>> THEN done
    ELSE IF f[done].kind # "dir" THEN NoPath
    ELSE LET p == Append(done, Head(rest))
         IN  IF p \notin DOMAIN f THEN NoPath
             ELSE IF f[p].kind = "link"
                  THEN IF fuel = 0 THEN NoPath
                       ELSE walk(f, <<>>, f[p].to \o Tail(rest), fuel - 1)
                  ELSE walk(f, p, Tail(rest), fuel)

\* os.stat: follows the last component too
real(f, p) == walk(f, <<>>, p, MaxSymlinks)

\* os.lstat: the directory part resolved, the last component not followed
lreal(f, p) ==
    IF p = <<>> THEN real(f, p)
    ELSE LET d == real(f, parent(p))
         IN  IF d = NoPath \/ f[d].kind # "dir" THEN NoPath
             ELSE Append(d, name(p))

exists(f, p) == real(f, p) # NoPath
is_dir(f, p) == real(f, p) # NoPath /\ f[real(f, p)].kind = "dir"
is_file(f, p) == real(f, p) # NoPath /\ f[real(f, p)].kind = "file"
is_symlink(f, p) ==
    lreal(f, p) # NoPath /\ lreal(f, p) \in DOMAIN f /\ f[lreal(f, p)].kind = "link"

\* Path.iterdir of a directory that can be read: its children
iterdir(f, d) ==
    LET r == real(f, d)
    IN  {Append(d, name(q)) : q \in {q \in DOMAIN f : q # <<>> /\ parent(q) = r}}

\* Path.mkdir(parents = True, exist_ok = True) on root / category
mkdir_ok(f, p) == lreal(f, p) \notin DOMAIN f \/ is_dir(f, p)

mkdir(f, p) ==
    IF lreal(f, p) \in DOMAIN f THEN f ELSE (lreal(f, p) :> Dir) @@ f

\* os.rename as shutil.move calls it: the node at src becomes the node at dst
move(f, src, dst) ==
    LET s == lreal(f, src)
        d == lreal(f, dst)
    IN  [q \in (DOMAIN f \ {s}) \cup {d} |-> IF q = d THEN f[s] ELSE f[q]]

(***************************************************************************)
(* The collision resolver.                                                 *)
(***************************************************************************)
RECURSIVE candidate_from(_, _, _)
candidate_from(f, target, i) ==
    LET candidate == Append(parent(target),
                            stem(name(target)) \o "_" \o str(i)
                                \o suffix(name(target)))
    IN  IF ~exists(f, candidate) THEN candidate
        ELSE candidate_from(f, target, i + 1)

make_unique_target(f, target) ==
    IF ~exists(f, target) THEN target ELSE candidate_from(f, target, 1)

(***************************************************************************)
(* Initial trees: the root plus at most MaxItems entries of a universe,    *)
(* each entry coming with the directories above it.                        *)
(***************************************************************************)
Items ==
    { (<<"a.jpg">> :> File("f1")),
      (<<"sub">> :> Dir) @@ (<<"sub", "a.jpg">> :> File("f2")),
      (<<"Images">> :> Dir) @@ (<<"Images", "a.jpg">> :> File("f3"))
          @@ (<<"Images", "a_1.jpg">> :> File("f4")),
      (<<"B.TAR.GZ">> :> File("f5")),
      (<<"Others">> :> File("f6")),
      (<<".hid">> :> Dir) @@ (<<".hid", "c.txt">> :> File("f7")),
      (<<"priv">> :> DirDenied),
      (<<"cyc">> :> Dir) @@ (<<"cyc", "loop">> :> Link(<<"cyc">>))
          @@ (<<"cyc", "d.mp3">> :> File("f9")),
      (<<"link">> :> Link(<<"Images">>)),
      (<<"sub">> :> Dir) @@ (<<"sub", "k.mp3">> :> FileLocked("f8")),
      (<<"ln.txt">> :> Link(<<"sub", "a.jpg">>)),
      (<<"sub">> :> Dir) @@ (<<"sub", "Images">> :> Dir)
          @@ (<<"sub", "Images", "n.jpg">> :> File("f10")),
      (<<".x.txt">> :> File("f11")),
      \* a dangling link where cyc/d.mp3 is headed: Path.exists says False
      (<<"Audio">> :> Dir) @@ (<<"Audio", "d.mp3">> :> Link(<<"gone">>)) }

RECURSIVE merge(_)
merge(S) ==
    IF S = {} THEN (<<>> :> Dir)
    ELSE LET i == CHOOSE i \in S : TRUE IN i @@ merge(S \ {i})

Trees == {merge(S) : S \in {S \in SUBSET Items : Cardinality(S) <= MaxItems}}

\* a root that is a regular file, and a root that does not exist
BadRoots == {(<<>> :> File("f0")), <<>>}

(***************************************************************************)
(* organize_iterative.                                                     *)
(***************************************************************************)
Init ==
    /\ fs \in Trees \cup BadRoots
    /\ fsPrev = fs
    /\ prevClean = TRUE
    /\ dry_run \in BOOLEAN
    /\ include_hidden \in BOOLEAN
    /\ follow_symlinks \in BOOLEAN
    /\ pc = "start"
    /\ rerun = FALSE
    /\ stack = <<>>
    /\ current = <<>>
    /\ pending = {}
    /\ summary = [c \in Categories |-> 0]
    /\ errors = <<>>
    /\ processed = 0
    /\ listed = <<>>
    /\ pushed = <<>>
    /\ inspected = <<>>

\* lines 50-51: the root is missing or is not a directory
InvalidRoot ==
    /\ pc = "start"
    /\ ~(exists(fs, <<>>) /\ is_dir(fs, <<>>))
    /\ pc' = "raised"
    /\ UNCHANGED <<fs, fsPrev, prevClean, policy, rerun, stack, current, pending,
                   summary, errors, processed, listed, pushed, inspected>>

\* lines 53-56
Start ==
    /\ pc = "start"
    /\ exists(fs, <<>>) /\ is_dir(fs, <<>>)
    /\ stack' = << <<>> >>
    /\ summary' = [c \in Categories |-> 0]
    /\ errors' = <<>>
    /\ processed' = 0
    /\ pc' = "loop"
    /\ UNCHANGED <<fs, fsPrev, prevClean, policy, rerun, current, pending, listed,
                   pushed, inspected>>

top == stack[Len(stack)]
popped == SubSeq(stack, 1, Len(stack) - 1)

\* lines 58-61: pop a directory and list it
ListDir ==
    /\ pc = "loop"
    /\ stack # <<>>
    /\ fs[real(fs, top)].perm
    /\ stack' = popped
    /\ current' = top
    /\ pending' = iterdir(fs, top)
    /\ pc' = IF pending' = {} THEN "loop" ELSE "iter"
    /\ listed' = Append(listed, top)
    /\ UNCHANGED <<fs, fsPrev, prevClean, policy, rerun, summary, errors,
                   processed, pushed, inspected>>

\* the failure unwinds the while loop: the rest of the work-list is dropped
ListDeniedAborts ==
    /\ pc = "loop"
    /\ stack # <<>>
    /\ ~fs[real(fs, top)].perm
    /\ stack' = <<>>
    /\ current' = top
    /\ errors' = Append(errors, [path |-> top, msg |-> "PermissionError"])
    /\ listed' = Append(listed, top)
    /\ UNCHANGED <<fs, fsPrev, prevClean, policy, rerun, pending, pc, summary,
                   processed, pushed, inspected>>

\* lines 95-97: the listing raises PermissionError
ListDenied ==
    /\ pc = "loop"
    /\ stack # <<>>
    /\ ~fs[real(fs, top)].perm
    /\ stack' = popped
    /\ current' = top
    /\ errors' = Append(errors, [path |-> top, msg |-> "PermissionError"])
    /\ listed' = Append(listed, top)
    /\ UNCHANGED <<fs, fsPrev, prevClean, policy, rerun, pending, pc, summary,
                   processed, pushed, inspected>>

\* the for loop moves on to the next entry, or the while loop to the next pop
after(e) ==
    /\ pending' = pending \ {e}
    /\ pc' = IF pending' = {} THEN "loop" ELSE "iter"

\* line 62 and line 65: the two filters, on an entry of tree f
hidden_skipped(e) == ~include_hidden /\ startswith(name(e), ".")
\* the flag read the wrong way round
symlink_skipped_inverted(f, e) == is_symlink(f, e) /\ follow_symlinks
symlink_skipped(f, e) == is_symlink(f, e) /\ ~follow_symlinks
filtered(e) == hidden_skipped(e) \/ symlink_skipped(fs, e)

\* lines 62-63
SkipHiddenAt(e) ==
    /\ hidden_skipped(e)
    /\ after(e)
    /\ UNCHANGED <<fs, fsPrev, prevClean, policy, rerun, stack, current, summary,
                   errors, processed, listed, pushed, inspected>>

\* lines 65-66
SkipSymlinkAt(e) ==
    /\ ~hidden_skipped(e)
    /\ symlink_skipped(fs, e)
    /\ after(e)
    /\ UNCHANGED <<fs, fsPrev, prevClean, policy, rerun, stack, current, summary,
                   errors, processed, listed, pushed, inspected>>

\* lines 68-70: a directory named by a category label is not descended into
SkipCategoryDirAt(e) ==
    /\ ~filtered(e)
    /\ is_dir(fs, e)
    /\ name(e) \in Categories
    /\ after(e)
    /\ UNCHANGED <<fs, fsPrev, prevClean, policy, rerun, stack, current, summary,
                   errors, processed, listed, pushed, inspected>>

\* lines 68-71
PushDirAt(e) ==
    /\ ~filtered(e)
    /\ is_dir(fs, e)
    /\ name(e) \notin Categories
    /\ stack' = Append(stack, e)
    /\ pushed' = Append(pushed, e)
    /\ after(e)
    /\ UNCHANGED <<fs, fsPrev, prevClean, policy, rerun, current, summary, errors,
                   processed, listed, inspected>>

\* lines 92-93: neither a directory nor a file
SkipOtherAt(e) ==
    /\ ~filtered(e)
    /\ ~is_dir(fs, e)
    /\ ~is_file(fs, e)
    /\ after(e)
    /\ UNCHANGED <<fs, fsPrev, prevClean, policy, rerun, stack, current, summary,
                   errors, processed, listed, pushed, inspected>>

category_of(e) == resolve_category(get_extension_lower(name(e)))
target_dir(e) == <<category_of(e)>>
target_path(e) == Append(target_dir(e), name(e))

bump(c) == [summary EXCEPT ![c] = @ + 1]

\* what the file branch did with an entry: the entry, where it physically
\* was, the file's identity, its category, and the path it was sent to
record(e, dst, how) ==
    [entry |-> e, src |-> lreal(fs, e), id |-> fs[lreal(fs, e)].id,
     category |-> category_of(e), dst |-> dst, how |-> how]

\* lines 72-77 and 98-100: target_dir.mkdir raises; the handler of the
\* listing catches it, so the rest of the listing is abandoned
MkdirFailsAt(e) ==
    /\ ~filtered(e)
    /\ ~is_dir(fs, e)
    /\ is_file(fs, e)
    /\ ~mkdir_ok(fs, target_dir(e))
    /\ processed' = processed + 1
    /\ errors' = Append(errors, [path |-> current, msg |-> "FileExistsError"])
    /\ inspected' = Append(inspected, record(e, NoPath, "mkdir failed"))
    /\ pending' = {}
    /\ pc' = "loop"
    /\ UNCHANGED <<fs, fsPrev, prevClean, policy, rerun, stack, current, summary,
                   listed, pushed>>

\* lines 72-82
DryRunFileAt(e) ==
    /\ ~filtered(e)
    /\ ~is_dir(fs, e)
    /\ is_file(fs, e)
    /\ mkdir_ok(fs, target_dir(e))
    /\ dry_run
    /\ processed' = processed + 1
    /\ fs' = mkdir(fs, target_dir(e))
    /\ summary' = bump(category_of(e))
    /\ inspected' = Append(inspected, record(e, target_path(e), "dry"))
    /\ after(e)
    /\ UNCHANGED <<fsPrev, prevClean, policy, rerun, stack, current, errors,
                   listed, pushed>>

\* lines 72-78 and 83-88
MoveFileAt(e) ==
    /\ ~filtered(e)
    /\ ~is_dir(fs, e)
    /\ is_file(fs, e)
    /\ mkdir_ok(fs, target_dir(e))
    /\ ~dry_run
    /\ fs[lreal(fs, e)].perm
    /\ processed' = processed + 1
    /\ LET made == mkdir(fs, target_dir(e))
           unique_target == make_unique_target(made, target_path(e))
       IN  /\ fs' = move(made, e, unique_target)
           /\ inspected' = Append(inspected,
                                  record(e, unique_target, "moved"))
    /\ summary' = bump(category_of(e))
    /\ after(e)
    /\ UNCHANGED <<fsPrev, prevClean, policy, rerun, stack, current, errors,
                   listed, pushed>>

\* lines 72-78, 83-86 and 89-91: shutil.move raises
MoveFailsAt(e) ==
    /\ ~filtered(e)
    /\ ~is_dir(fs, e)
    /\ is_file(fs, e)
    /\ mkdir_ok(fs, target_dir(e))
    /\ ~dry_run
    /\ ~fs[lreal(fs, e)].perm
    /\ processed' = processed + 1
    /\ fs' = mkdir(fs, target_dir(e))
    /\ errors' = Append(errors, [path |-> e, msg |-> "move failed"])
    /\ inspected' = Append(inspected, record(e, NoPath, "move failed"))
    /\ after(e)
    /\ UNCHANGED <<fsPrev, prevClean, policy, rerun, stack, current, summary,
                   listed, pushed>>

\* one iteration of the for loop of line 61; iterdir's order is arbitrary
SkipHidden == pc = "iter" /\ \E e \in pending : SkipHiddenAt(e)
SkipSymlink == pc = "iter" /\ \E e \in pending : SkipSymlinkAt(e)
SkipCategoryDir == pc = "iter" /\ \E e \in pending : SkipCategoryDirAt(e)
PushDir == pc = "iter" /\ \E e \in pending : PushDirAt(e)
SkipOther == pc = "iter" /\ \E e \in pending : SkipOtherAt(e)
MkdirFails == pc = "iter" /\ \E e \in pending : MkdirFailsAt(e)
DryRunFile == pc = "iter" /\ \E e \in pending : DryRunFileAt(e)
MoveFile == pc = "iter" /\ \E e \in pending : MoveFileAt(e)
MoveFails == pc = "iter" /\ \E e \in pending : MoveFailsAt(e)

\* lines 102-111: the stack is empty, the summary is printed
Finish ==
    /\ pc = "loop"
    /\ stack = <<>>
    /\ pc' = "done"
    /\ UNCHANGED <<fs, fsPrev, prevClean, policy, rerun, stack, current, pending,
                   summary, errors, processed, listed, pushed, inspected>>

\* lines 121-130: the organizer is run again on the same root, same policies
RunAgain ==
    /\ pc = "done"
    /\ ~rerun
    /\ ~dry_run
    /\ rerun' = TRUE
    /\ fsPrev' = fs
    /\ prevClean' = (errors = <<>>)
    /\ pc' = "start"
    /\ listed' = <<>>
    /\ pushed' = <<>>
    /\ inspected' = <<>>
    /\ UNCHANGED <<fs, policy, stack, current, pending, summary, errors,
                   processed>>

Next ==
    \/ InvalidRoot
    \/ Start
    \/ ListDir
    \/ ListDenied
    \/ SkipHidden
    \/ SkipSymlink
    \/ SkipCategoryDir
    \/ PushDir
    \/ SkipOther
    \/ MkdirFails
    \/ DryRunFile
    \/ MoveFile
    \/ MoveFails
    \/ Finish
    \/ RunAgain

Spec == Init /\ [][Next]_vars

(***************************************************************************)
(* What a run is expected to reach, read off the tree the run started on,  *)
(* and what the histories say it did.                                      *)
(***************************************************************************)
RECURSIVE SumOver(_, _)
SumOver(f, S) ==
    IF S = {} THEN 0
    ELSE LET x == CHOOSE x \in S : TRUE IN f[x] + SumOver(f, S \ {x})

Total == SumOver(summary, Categories)

Indices(q) == 1..Len(q)
Times(q, x) == Cardinality({k \in Indices(q) : q[k] = x})
Prefixes(e) == {SubSeq(e, 1, k) : k \in 1..Len(e)}

RegularFiles(f) == {p \in DOMAIN f : f[p].kind = "file"}
FileIds(f) == {f[p].id : p \in RegularFiles(f)}
InCategoryFolder(p) == \E k \in 1..(Len(p) - 1) : p[k] \in Categories

Listable(f, d) == is_dir(f, d) /\ f[real(f, d)].perm
Kept(f, e) == ~hidden_skipped(e) /\ ~symlink_skipped(f, e)
EntriesOf(f, S) == UNION {iterdir(f, d) : d \in {d \in S : Listable(f, d)}}

RECURSIVE Reach(_, _)
Reach(f, S) ==
    LET T == S \cup {e \in EntriesOf(f, S) :
                        Kept(f, e) /\ is_dir(f, e) /\ name(e) \notin Categories}
    IN  IF T = S THEN S ELSE Reach(f, T)

\* the directories, and the file entries, that pass the filters on tree f
ReachDirs(f) == Reach(f, {<<>>})
ReachFiles(f) ==
    {e \in EntriesOf(f, ReachDirs(f)) : Kept(f, e) /\ is_file(f, e)}

\* regular files the run is expected to move: reachable, not filtered out,
\* not under a directory named by a category label
InScope(f) ==
    {e \in ReachFiles(f) : ~is_symlink(f, e) /\ ~InCategoryFolder(real(f, e))}

RecordsOf(i) == {k \in Indices(inspected) : inspected[k].id = i}
Moves == {k \in Indices(inspected) : inspected[k].how = "moved"}
Failures ==
    {k \in Indices(inspected) : inspected[k].how \in {"mkdir failed", "move failed"}}
ErrorsAt(p) == {k \in Indices(errors) : errors[k].path = p}

\* every regular file that sat directly in readable directory d when the run
\* started, and passes the filters, reached the file branch
FilesInspectedIn(d) ==
    Listable(fsPrev, d) =>
        \A e \in iterdir(fsPrev, d) :
            (Kept(fsPrev, e) /\ is_file(fsPrev, e) /\ ~is_symlink(fsPrev, e)) =>
                RecordsOf(fsPrev[real(fsPrev, e)].id) # {}

AllListedFilesInspected ==
    \A k \in Indices(listed) : FilesInspectedIn(listed[k])

\* the only errors recorded against directory d are failures to list it
OnlyListingErrorsAt(d) ==
    \A j \in ErrorsAt(d) : errors[j].msg = "PermissionError"

\* the step just taken moved a file; the record of that move
JustMoved ==
    Len(inspected') = Len(inspected) + 1 /\ inspected'[Len(inspected')].how = "moved"
LastRecord == inspected'[Len(inspected')]
Numbered(r, i) ==
    <<r.category, stem(name(r.entry)) \o "_" \o str(i) \o suffix(name(r.entry))>>

\* there is an entry at path p, whatever it is (os.path.lexists)
EntryAt(f, p) == lreal(f, p) \in DOMAIN f

MoveIsCollisionFree ==
    JustMoved =>
        LET r == LastRecord
            desired == <<r.category, name(r.entry)>>
        IN  /\ ~EntryAt(fs, r.dst)
            /\ IF ~EntryAt(fs, desired) THEN r.dst = desired
               ELSE \E i \in 1..Cardinality(DOMAIN fs) :
                       /\ r.dst = Numbered(r, i)
                       /\ \A j \in 1..(i - 1) : EntryAt(fs, Numbered(r, j))
            /\ \A p \in DOMAIN fs \ {r.src} :
                   fs[p].kind # "dir" => p \in DOMAIN fs' /\ fs'[p] = fs[p]
            /\ FileIds(fs') = FileIds(fs)

\* the two filters, stated on a path of the tree the run started on
Passes(q) ==
    /\ ~include_hidden => SubSeq(name(q), 1, 1) # "."
    /\ ~follow_symlinks => ~is_symlink(fsPrev, q)
SelfExcluded(p) ==
    \/ ~include_hidden /\ SubSeq(name(p), 1, 1) = "."
    \/ ~follow_symlinks /\ fsPrev[p].kind = "link"
\* with links not followed a node is reached by its own path only
UnderExcluded(p) ==
    /\ ~follow_symlinks /\ ~include_hidden
    /\ \E k \in 1..(Len(p) - 1) : SubSeq(p[k], 1, 1) = "."

(***************************************************************************)
(* C1: a dry run leaves the file system as it found it (no file moved, no  *)
(* directory created) and its summary counts every inspected file.         *)
(***************************************************************************)
C1_DryRunHasNoSideEffects ==
    dry_run => /\ fs = fsPrev
               /\ pc = "done" => Total = processed

(***************************************************************************)
(* C2: after a non-dry run without errors every regular file in scope      *)
(* (reachable, not filtered out, not under a category-named directory) is  *)
(* directly inside root/<its category>, and the summary counts it once, in *)
(* that category.                                                          *)
(***************************************************************************)
C2_FilesHoistedAndCountedOnce ==
    (pc = "done" /\ ~dry_run /\ errors = <<>>) =>
        \A e \in InScope(fsPrev) :
            LET i == fsPrev[real(fsPrev, e)].id
                c == resolve_category(get_extension_lower(name(e)))
            IN  /\ \E p \in RegularFiles(fs) :
                       fs[p].id = i /\ Len(p) = 2 /\ p[1] = c
                /\ Cardinality(RecordsOf(i)) = 1
                /\ \A k \in RecordsOf(i) : inspected[k].category = c

(***************************************************************************)
(* C3: every move goes to a path at which nothing exists just before it:   *)
(* the desired path root/<category>/<name> when that is free, otherwise    *)
(* <stem>_<i><suffix> with the smallest i >= 1 that is free.  No file or   *)
(* link that was already there is overwritten, and the number of regular   *)
(* files under the root never changes.                                     *)
(***************************************************************************)
C3_MovesNeverCollide ==
    /\ [](Cardinality(RegularFiles(fs)) = Cardinality(RegularFiles(fsPrev)))
    /\ [][MoveIsCollisionFree]_vars

(***************************************************************************)
(* C4: at the end of every run each file that passes the filters has been  *)
(* inspected exactly once and counted in one bucket, and the buckets add   *)
(* up to the number of files inspected.                                    *)
(***************************************************************************)
C4_EveryFileCountedOnce ==
    pc = "done" =>
        /\ Total = processed
        /\ \A e \in ReachFiles(fsPrev) :
               ~is_symlink(fsPrev, e) =>
                   LET recs == RecordsOf(fsPrev[real(fsPrev, e)].id)
                   IN  /\ Cardinality(recs) = 1
                       /\ \A k \in recs : inspected[k].how \in {"moved", "dry"}

(***************************************************************************)
(* C5: a directory named by a category label is never pushed, no file      *)
(* inside such a folder is ever moved, and a second non-dry run on a root  *)
(* the first run organized moves nothing and leaves the tree as it was.    *)
(***************************************************************************)
C5_CategoryFoldersUntouched ==
    /\ \A k \in Indices(pushed) : name(pushed[k]) \notin Categories
    /\ \A k \in Moves : ~InCategoryFolder(inspected[k].src)
    /\ (rerun /\ pc = "done" /\ prevClean) => (fs = fsPrev /\ Moves = {})

(***************************************************************************)
(* C6: a directory whose listing fails does not abort the traversal: at    *)
(* the end every directory put on the work-list has been popped and listed *)
(* once, the error list holds exactly one entry carrying the path of each  *)
(* unreadable directory, and the files of every listed directory that has  *)
(* no other error recorded against it have been processed.                 *)
(***************************************************************************)
C6_ListingFailureDoesNotAbort ==
    pc = "done" =>
        /\ Times(listed, <<>>) = 1
        /\ \A k \in Indices(pushed) : Times(listed, pushed[k]) = 1
        /\ \A k \in Indices(listed) :
               ~Listable(fs, listed[k]) =>
                   /\ Cardinality(ErrorsAt(listed[k])) = 1
                   /\ \A j \in ErrorsAt(listed[k]) :
                          errors[j].msg = "PermissionError"
        /\ \A k \in Indices(listed) :
               OnlyListingErrorsAt(listed[k]) => FilesInspectedIn(listed[k])

\* priv could not be listed; its sibling sub was listed after it and the
\* file in it was processed
C6_Witness ==
    /\ pc = "done"
    /\ listed = << <<>>, <<"priv">>, <<"sub">> >>
    /\ errors = << [path |-> <<"priv">>, msg |-> "PermissionError"] >>
    /\ RecordsOf("f2") # {}

(***************************************************************************)
(* C7: a file whose lowercased name ends with a multi-part suffix          *)
(* (.tar.gz, .tar.bz2) is classified by the extension table's entry for    *)
(* that suffix.                                                            *)
(***************************************************************************)
C7_MultiPartSuffixHasTableEntry ==
    \A k \in Indices(inspected) :
        \A t \in {".tar.gz", ".tar.bz2"} :
            endswith(lower(name(inspected[k].entry)), t) =>
                /\ t \in DOMAIN EXT_MAP
                /\ inspected[k].category = EXT_MAP[t]

(***************************************************************************)
(* C8: an entry the policies exclude (a name starting with "." when hidden *)
(* entries are excluded, a symbolic link when links are not followed) is   *)
(* neither pushed, nor inspected, nor moved, and neither is anything that  *)
(* can only be reached through it.                                         *)
(***************************************************************************)
C8_FilteredEntriesUntouched ==
    /\ \A k \in Indices(pushed) : \A q \in Prefixes(pushed[k]) : Passes(q)
    /\ \A k \in Indices(inspected) :
           \A q \in Prefixes(inspected[k].entry) : Passes(q)
    /\ \A p \in DOMAIN fsPrev \ {<<>>} :
           (SelfExcluded(p) \/ UnderExcluded(p)) =>
               /\ \A k \in Indices(inspected) : inspected[k].src # p
               /\ \A k \in Indices(pushed) : lreal(fsPrev, pushed[k]) # p

\* hidden entries and links excluded: .hid, its file and the link are where
\* they were, the file beside the link has been moved
C8_Witness ==
    /\ pc = "done" /\ ~include_hidden /\ ~follow_symlinks /\ ~dry_run
    /\ <<".hid", "c.txt">> \in DOMAIN fs
    /\ <<"cyc", "loop">> \in DOMAIN fs
    /\ <<"Audio", "d.mp3">> \in DOMAIN fs

(***************************************************************************)
(* C9: a failure while handling one file (its category directory cannot be *)
(* created, or the move fails) is recorded exactly once against that       *)
(* file's path, and the remaining entries of the directory are processed.  *)
(***************************************************************************)
C9_FileFailureStaysWithTheFile ==
    /\ \A k \in Failures : Cardinality(ErrorsAt(inspected[k].entry)) = 1
    /\ pc = "done" => AllListedFilesInspected

(***************************************************************************)
(* C10: no directory is listed twice, also when links are followed and a   *)
(* link points to one of its own ancestors, and at the end the stack is    *)
(* empty and every pushed directory has been popped and listed once.       *)
(***************************************************************************)
C10_EachDirectoryListedOnce ==
    /\ \A i, j \in Indices(listed) :
           i # j => real(fs, listed[i]) # real(fs, listed[j])
    /\ pc = "done" =>
           /\ stack = <<>>
           /\ \A k \in Indices(pushed) : Times(listed, pushed[k]) = 1

====
